---- MODULE Spec2Model ----
(***************************************************************************)
(* ComparisonRangeLabel (superset-frontend/src/explore/components/         *)
(* controls/ComparisonRangeLabel.tsx): a React component that reads the    *)
(* temporal filters, the time-comparison shifts and the explicit start     *)
(* date from the redux store, resolves one label per filter through        *)
(* fetchTimeRange / getTimeOffset and renders the labels.                  *)
(*                                                                         *)
(* Representation of the JavaScript values:                                *)
(*   - a text (comparator, service value, label) is a sequence of words,   *)
(*     the words being what is separated by blanks; "" is << >>;           *)
(*   - a date is a word of DateWords ("YYYY-MM-DD");                       *)
(*   - a shift tag, a subject and the start date are strings; a missing    *)
(*     string is Undefined;                                                *)
(*   - a possibly missing array is NoArray or Array(items).                *)
(***************************************************************************)
EXTENDS Integers, Sequences, FiniteSets, TLC

VARIABLES
    form_data,                 \* state.explore.form_data of the store
    currentTimeRangeFilters,   \* useSelector, line 67
    previousCustomFilter,      \* useSelector, line 75
    shifts,                    \* useSelector, line 83
    startDate,                 \* useSelector, line 95
    labels,                    \* useState, line 66
    effectPending,             \* the effect of line 99 is scheduled and has not run
    batches,                   \* the batches of line 114 still in flight, oldest first
    writer,                    \* << >>, or <<b>>: the batch whose result labels holds
    latestRun                  \* what the most recent run of the effect did

vars == <<form_data, currentTimeRangeFilters, previousCustomFilter, shifts,
          startDate, labels, effectPending, batches, writer, latestRun>>

----------------------------------------------------------------------------
(* Bounds *)

\* the batches that may be in flight at once
MaxInFlight == 2

----------------------------------------------------------------------------
(* JavaScript values *)

Undefined == "<undefined>"

NoArray == [defined |-> FALSE]

Array(items) == [defined |-> TRUE, items |-> items]

\* !!x of a string
Truthy(s) == s # Undefined /\ s # ""

\* !!x of an array or undefined: every array is truthy, the empty one too
TruthyArray(a) == a.defined

\* lodash isEmpty of an array or undefined
isEmpty(a) == IF a.defined THEN Len(a.items) = 0 ELSE TRUE

\* ensureIsArray of an array or undefined
ensureIsArray(a) == IF a.defined THEN a.items ELSE << >>

\* Array.prototype.includes
Includes(s, x) == \E i \in 1..Len(s) : s[i] = x

----------------------------------------------------------------------------
(* Dates *)

DateWords == {"2024-01-01", "2024-01-08", "2024-01-15", "2024-02-01"}

\* parseDttmToDate: the day a date word names, with or without the time of day,
\* 0 (no valid date) for anything else
parseDttmToDate(w) ==
    CASE w = "2024-01-01" -> 1
      [] w = "2024-01-08" -> 8
      [] w = "2024-01-15" -> 15
      [] w = "2024-02-01" -> 32
      [] w = "2024-01-15T00:00:00" -> 15
      [] w = "2024-02-01T00:00:00" -> 32
      [] OTHER -> 0

\* extendedDayjs(d).format(DAYJS_FORMAT)
format(d) ==
    CASE d = 1 -> "2024-01-01"
      [] d = 8 -> "2024-01-08"
      [] d = 15 -> "2024-01-15"
      [] d = 32 -> "2024-02-01"
      [] OTHER -> "Invalid Date"

\* dayjs isValid
isValid(d) == d > 0

\* dayjs isSameOrBefore: false as soon as one side is invalid
isSameOrBefore(a, b) == isValid(a) /\ isValid(b) /\ a <= b

\* value.match(DEFAULT_DATE_PATTERN) ?? []: the dates of a text, in order
MatchDates(text) == SelectSeq(text, LAMBDA w : w \in DateWords)

\* comparator.split(' : ')[0]: the words before the first ":"
RECURSIVE SplitHead(_)
SplitHead(text) ==
    IF text = << >> \/ Head(text) = ":" THEN << >>
    ELSE <<Head(text)>> \o SplitHead(Tail(text))

\* a text of one word as the string it is; anything else parses to no date
AsString(text) == IF Len(text) = 1 THEN text[1] ELSE IF text = << >> THEN "" ELSE "<text>"

----------------------------------------------------------------------------
(* The store: the form_data the component can be given *)

TemporalA == [operator |-> "TEMPORAL_RANGE", subject |-> "ds",
              comparator |-> <<"Last", "week">>]

TemporalB == [operator |-> "TEMPORAL_RANGE", subject |-> "ts",
              comparator |-> <<"No", "filter">>]

NonTemporal == [operator |-> "==", subject |-> "name", comparator |-> <<"x">>]

PreviousCustom == [operator |-> "TEMPORAL_RANGE", subject |-> "ds",
                   comparator |-> <<"2024-01-01", ":", "2024-02-01">>]

\* a custom range given with the time of day
PreviousCustomTime ==
    [operator |-> "TEMPORAL_RANGE", subject |-> "ds",
     comparator |-> <<"2024-01-15T00:00:00", ":", "2024-02-01T00:00:00">>]

Form(filters, custom, timeCompare, timeComparison, start) ==
    [adhoc_filters |-> filters, adhoc_custom |-> custom, time_compare |-> timeCompare,
     time_comparison |-> timeComparison, start_date_offset |-> start]

OneFilter == <<TemporalA>>

TwoFilters == <<TemporalA, NonTemporal, TemporalB>>

WithPreviousCustom == Array(<<NonTemporal, PreviousCustom>>)

WithPreviousCustomTime == Array(<<NonTemporal, PreviousCustomTime>>)

Literal == Array(<<"1 year ago", "1 week ago">>)

Inherit == Array(<<"inherit">>)

Mixed == Array(<<"1 year ago", "custom", "1 week ago">>)

\* no temporal filter, with and without shifts and start date
FormsWithoutFilter ==
    { Form(<<NonTemporal>>, NoArray, tc, Undefined, start) :
        tc \in {NoArray, Mixed}, start \in {Undefined, "2024-01-08"} }

\* temporal filters, no shift and no start date
FormsWithoutShift ==
    { Form(TwoFilters, NoArray, NoArray, "x", Undefined),
      Form(OneFilter, NoArray, Array(<< >>), "y", Undefined) }

\* the legacy field, read when time_compare is missing and ignored otherwise
FormsWithLegacyShift ==
    { Form(OneFilter, NoArray, NoArray, "y", Undefined),
      Form(TwoFilters, NoArray, Literal, "r", Undefined) }
    \cup { Form(<<NonTemporal>>, NoArray, NoArray, code, Undefined) :
             code \in {"r", "m", "w", "c"} }

\* literal shifts only, and no shift with a start date
FormsWithLiteralShifts ==
    { Form(TwoFilters, NoArray, Literal, "r", Undefined),
      Form(OneFilter, NoArray, Array(<< >>), Undefined, "2024-01-08") }

\* relative shifts: the start date missing, on the start of the filter's range
\* (2024-01-08) and after it; a previous custom filter or none
FormsWithRelativeShifts ==
    { Form(TwoFilters, NoArray, Inherit, Undefined, Undefined),
      Form(OneFilter, NoArray, Inherit, Undefined, Undefined),
      Form(OneFilter, WithPreviousCustomTime, Inherit, Undefined, Undefined),
      Form(OneFilter, NoArray, Inherit, Undefined, "2024-01-15"),
      Form(OneFilter, WithPreviousCustom, Mixed, Undefined, "2024-01-08"),
      Form(OneFilter, NoArray, Mixed, Undefined, "2024-01-15"),
      Form(TwoFilters, NoArray, Mixed, Undefined, Undefined),
      Form(TwoFilters, WithPreviousCustom, Mixed, Undefined, Undefined) }

Forms ==
    FormsWithoutFilter \cup FormsWithoutShift \cup FormsWithLegacyShift
        \cup FormsWithLiteralShifts \cup FormsWithRelativeShifts

----------------------------------------------------------------------------
(* The selectors, lines 53-97 *)

oldChoices ==
    [r |-> "inherit", y |-> "1 year ago", m |-> "1 month ago", w |-> "1 week ago",
     c |-> "custom"]

isTemporalRange(adhoc_filter) == adhoc_filter.operator = "TEMPORAL_RANGE"

\* lines 68-72
selectCurrentTimeRangeFilters(fd) == SelectSeq(fd.adhoc_filters, isTemporalRange)

\* lines 76-80: adhoc_custom?.filter(...)
selectPreviousCustomFilter(fd) ==
    IF fd.adhoc_custom.defined
    THEN Array(SelectSeq(fd.adhoc_custom.items, isTemporalRange))
    ELSE NoArray

\* a variant that lets the legacy field win over time_compare
selectShifts_legacyFirst(fd) ==
    IF Truthy(fd.time_comparison) /\ fd.time_comparison \in DOMAIN oldChoices
    THEN Array(<<oldChoices[fd.time_comparison]>>)
    ELSE fd.time_compare

\* lines 83-94
selectShifts(fd) ==
    IF ~TruthyArray(fd.time_compare)
    THEN LET previousTimeComparison ==
                 IF Truthy(fd.time_comparison) THEN fd.time_comparison ELSE ""
         IN  IF previousTimeComparison \in DOMAIN oldChoices
             THEN Array(<<oldChoices[previousTimeComparison]>>)
             ELSE fd.time_compare
    ELSE fd.time_compare

\* line 96
selectStartDate(fd) == fd.start_date_offset

\* lines 42-47: lodash isEqual is equality by value
isTimeRangeEqual(left, right) == left = right

isShiftEqual(left, right) == left = right

----------------------------------------------------------------------------
(* The services the effect calls *)

\* The value fetchTimeRange resolves to is a function of its arguments: the
\* range the expression names ("Last week" has dates, "No filter" has none),
\* moved by the shifts asked for. Whether and when it answers is not.
rangeOf(timeRange, columnPlaceholder) ==
    IF timeRange = <<"Last", "week">>
    THEN <<"2024-01-08", "<=", columnPlaceholder, "<", "2024-01-15">>
    ELSE timeRange

resolveTimeRange(timeRange, columnPlaceholder, shiftArg) ==
    IF Len(ensureIsArray(shiftArg)) = 0 THEN rangeOf(timeRange, columnPlaceholder)
    ELSE rangeOf(timeRange, columnPlaceholder) \o <<"shifted", "by">>
             \o ensureIsArray(shiftArg)

\* fetchTimeRange(timeRange, columnPlaceholder, shifts?)
FetchCall(timeRange, columnPlaceholder, shiftArg) ==
    [fn |-> "fetchTimeRange", timeRange |-> timeRange,
     columnPlaceholder |-> columnPlaceholder, shifts |-> shiftArg]

\* the literal shift getTimeOffset computes for a relative tag
ComputedShift(tag) == IF tag = "custom" THEN "7 days ago" ELSE "28 days ago"

\* what getTimeOffset may return for relative tags: each tag computed, or, the
\* offsets lying in the future and includeFutureOffsets being false, none
GetTimeOffsetResults(relativeShifts) ==
    { << >>, [k \in 1..Len(relativeShifts) |-> ComputedShift(relativeShifts[k])] }

\* getTimeOffset({timeRangeFilter, shifts, startDate, includeFutureOffsets})
OffsetCall(timeRangeFilter, relativeShifts, useStartDate, future, result) ==
    [fn |-> "getTimeOffset", timeRangeFilter |-> timeRangeFilter,
     shifts |-> relativeShifts, startDate |-> useStartDate,
     includeFutureOffsets |-> future, result |-> result]

----------------------------------------------------------------------------
(* The effect, lines 99-178 *)

\* a variant without the test of the filters
emitsEmpty_ignoringFilters(filters, shiftsArray, start) ==
    Len(shiftsArray) = 0 /\ ~Truthy(start)

\* a variant without the test of the shifts and the start date
emitsEmpty_ignoringShifts(filters, shiftsArray, start) == Len(filters) = 0

\* lines 101-104
emitsEmpty(filters, shiftsArray, start) ==
    Len(filters) = 0 \/ (Len(shiftsArray) = 0 /\ ~Truthy(start))

\* line 106
startsBatch(selectedShifts, start) == ~isEmpty(selectedShifts) \/ Truthy(start)

\* lines 107-113
useStartDateOf(start, previous) ==
    IF ~Truthy(start) /\ ~isEmpty(previous)
    THEN format(parseDttmToDate(AsString(SplitHead(previous.items[1].comparator))))
    ELSE start

\* lines 115-118
nonCustomNorInheritShifts(shiftsArray) ==
    SelectSeq(shiftsArray, LAMBDA shift : shift # "custom" /\ shift # "inherit")

\* lines 119-122
customOrInheritShifts(shiftsArray) ==
    SelectSeq(shiftsArray, LAMBDA shift : shift = "custom" \/ shift = "inherit")

\* a variant that lets "custom" through without a start date
takesRelativePath_ignoringStart(relativeShifts, start) ==
    Includes(relativeShifts, "custom") \/ Includes(relativeShifts, "inherit")

\* lines 133-137
takesRelativePath(relativeShifts, start) ==
    \/ Includes(relativeShifts, "custom") /\ Truthy(start)
    \/ Includes(relativeShifts, "inherit")

\* a variant that does not compare the start date with the range
mayComputeOffsets_ignoringStart(dates, start) == Len(dates) > 0

\* a variant that asks for a date in the range only when a start date is given
mayComputeOffsets_ignoringDates(dates, start) ==
    \/ ~Truthy(start)
    \/ /\ Len(dates) > 0
       /\ isSameOrBefore(parseDttmToDate(start), parseDttmToDate(dates[1]))

\* lines 141-149; dates is what the pattern matched in the filter's own range
mayComputeOffsets(dates, start) ==
    /\ Len(dates) > 0
    /\ \/ isSameOrBefore(parseDttmToDate(start), parseDttmToDate(dates[1]))
       \/ ~Truthy(start)

\* line 153: `${parsedStartDate} : ${parsedEndDate}`
ownRangeComparator(dates) ==
    <<IF Len(dates) > 0 THEN dates[1] ELSE "undefined", ":",
      IF Len(dates) > 1 THEN dates[2] ELSE "undefined">>

\* a variant that puts the literal shifts first
secondFetchShifts_literalFirst(postProcessedShifts, literalShifts) ==
    literalShifts \o postProcessedShifts

\* lines 162-164
secondFetchShifts(postProcessedShifts, literalShifts) ==
    postProcessedShifts \o literalShifts

\* a promise of line 114: the path it takes, its state, the service calls made
\* for it in order, the values fetchTimeRange returned to it, and its result
Resolved(path, calls, returned, value) ==
    [path |-> path, state |-> "fulfilled", calls |-> calls, returned |-> returned,
     value |-> value]

Waiting(path, calls, returned) ==
    [path |-> path, state |-> "pending", calls |-> calls, returned |-> returned,
     value |-> << >>]

\* a variant whose direct fetch leaves the shifts out
startPromise_withoutShifts(filter, shiftsArray, start) ==
    IF Len(customOrInheritShifts(shiftsArray)) = 0
    THEN Waiting("direct", <<FetchCall(filter.comparator, filter.subject, NoArray)>>, << >>)
    ELSE IF takesRelativePath(customOrInheritShifts(shiftsArray), start)
    THEN Waiting("relative",
                 <<FetchCall(filter.comparator, filter.subject, NoArray)>>, << >>)
    ELSE Resolved("none", << >>, << >>, << >>)

\* lines 114-172, up to the first await
startPromise(filter, shiftsArray, start) ==
    IF Len(customOrInheritShifts(shiftsArray)) = 0
    THEN Waiting("direct",
                 <<FetchCall(filter.comparator, filter.subject,
                             Array(nonCustomNorInheritShifts(shiftsArray)))>>, << >>)
    ELSE IF takesRelativePath(customOrInheritShifts(shiftsArray), start)
    THEN Waiting("relative",
                 <<FetchCall(filter.comparator, filter.subject, NoArray)>>, << >>)
    ELSE Resolved("none", << >>, << >>, << >>)

\* a variant that compares the start date that goes to getTimeOffset, fallback
\* included, with the start of the filter's own range
onOwnRange_fallbackInComparison(promise, filter, shiftsArray, start, useStart, value, postProcessedShifts) ==
    LET dates == MatchDates(value)
        returned == Append(promise.returned, value)
    IN  IF mayComputeOffsets(dates, useStart)
        THEN Waiting("relative",
                 promise.calls \o
                 << OffsetCall([filter EXCEPT !.comparator = ownRangeComparator(dates)],
                               customOrInheritShifts(shiftsArray), useStart, FALSE,
                               postProcessedShifts),
                    FetchCall(filter.comparator, filter.subject,
                              Array(secondFetchShifts(postProcessedShifts,
                                        nonCustomNorInheritShifts(shiftsArray)))) >>,
                 returned)
        ELSE Resolved("relative", promise.calls, returned, << >>)

\* lines 138-169: the continuation of the first fetch of the relative path;
\* postProcessedShifts is what getTimeOffset returns if it is called
onOwnRange(promise, filter, shiftsArray, start, useStart, value, postProcessedShifts) ==
    LET dates == MatchDates(value)
        returned == Append(promise.returned, value)
    IN  IF mayComputeOffsets(dates, start)
        THEN Waiting("relative",
                 promise.calls \o
                 << OffsetCall([filter EXCEPT !.comparator = ownRangeComparator(dates)],
                               customOrInheritShifts(shiftsArray), useStart, FALSE,
                               postProcessedShifts),
                    FetchCall(filter.comparator, filter.subject,
                              Array(secondFetchShifts(postProcessedShifts,
                                        nonCustomNorInheritShifts(shiftsArray)))) >>,
                 returned)
        ELSE Resolved("relative", promise.calls, returned, << >>)

\* a fetch that is the promise's last step fulfils it with the value returned
onResult(promise, value) ==
    Resolved(promise.path, promise.calls, Append(promise.returned, value), value)

\* whether the response awaited is that of the first fetch of the relative path
awaitsOwnRange(promise) == promise.path = "relative" /\ Len(promise.returned) = 0

\* a variant that fulfils with the first promise, as Promise.race would
allFulfilled_first(promises) == \E i \in 1..Len(promises) : promises[i].state = "fulfilled"

\* Promise.all fulfils, line 173
allFulfilled(promises) == \A i \in 1..Len(promises) : promises[i].state = "fulfilled"

anyPending(promises) == \E i \in 1..Len(promises) : promises[i].state = "pending"

\* line 175: res.map(r => r.value ?? '')
labelsOf(promises) == [i \in 1..Len(promises) |-> promises[i].value]

\* the batch of one run of the effect: the inputs it closed over and its promises
newBatch(filters, shiftsArray, start, previous) ==
    [filters |-> filters, shifts |-> shiftsArray, startDate |-> start,
     previousCustomFilter |-> previous,
     useStartDate |-> useStartDateOf(start, previous),
     promises |-> [i \in 1..Len(filters) |-> startPromise(filters[i], shiftsArray, start)],
     latest |-> TRUE, rejected |-> FALSE]

\* a later run of the effect makes every earlier batch a superseded one
supersede(bs) == [i \in 1..Len(bs) |-> [bs[i] EXCEPT !.latest = FALSE]]

remove(bs, b) == [i \in 1..(Len(bs) - 1) |-> IF i < b THEN bs[i] ELSE bs[i + 1]]

----------------------------------------------------------------------------
(* The component *)

\* labels.flat(): the labels are strings, which flat() leaves whole
flat(labelList) == labelList

\* a variant that renders only when some label is not blank
render_nonBlank(labelList) ==
    IF \E i \in 1..Len(labelList) : Len(labelList[i]) # 0
    THEN <<[tag |-> "ControlHeader", text |-> <<"Actual", "range", "for", "comparison">>]>>
         \o [i \in 1..Len(flat(labelList)) |-> [tag |-> "div", text |-> flat(labelList)[i]]]
    ELSE << >>

\* lines 180-197: what the component renders, null being no element at all
render(labelList) ==
    IF Len(labelList) # 0
    THEN <<[tag |-> "ControlHeader", text |-> <<"Actual", "range", "for", "comparison">>]>>
         \o [i \in 1..Len(flat(labelList)) |-> [tag |-> "div", text |-> flat(labelList)[i]]]
    ELSE << >>

\* the first render: useState([]) and the selectors on the store as it is; the
\* effect runs after it
Init ==
    /\ form_data \in Forms
    /\ currentTimeRangeFilters = selectCurrentTimeRangeFilters(form_data)
    /\ previousCustomFilter = selectPreviousCustomFilter(form_data)
    /\ shifts = selectShifts(form_data)
    /\ startDate = selectStartDate(form_data)
    /\ labels = << >>
    /\ effectPending = TRUE
    /\ batches = << >>
    /\ writer = << >>
    /\ latestRun = "unrun"

\* useSelector with an equality function keeps the value it had when the new
\* one is equal to it, so that the dependency of line 178 does not change
reselectTimeRange(old, new) == IF isTimeRangeEqual(old, new) THEN old ELSE new

reselectShifts(old, new) == IF isShiftEqual(old, new) THEN old ELSE new

\* a variant in which every store update counts as a change of the dependencies,
\* as with selectors that hand out a new array each time
depsChanged_always(oldFilters, oldShifts, oldStart, newFilters, newShifts, newStart) ==
    TRUE

\* line 178: whether a dependency of the effect changed between two renders
depsChanged(oldFilters, oldShifts, oldStart, newFilters, newShifts, newStart) ==
    oldFilters # newFilters \/ oldShifts # newShifts \/ oldStart # newStart

\* The store changes: the selectors run and the component renders again. React
\* runs the effect of a render before it renders again, hence the guard.
Dispatch ==
    /\ ~effectPending
    /\ \E fd \in Forms :
        /\ form_data' = fd
        /\ currentTimeRangeFilters' =
               reselectTimeRange(currentTimeRangeFilters,
                                 selectCurrentTimeRangeFilters(fd))
        /\ previousCustomFilter' =
               reselectTimeRange(previousCustomFilter,
                                 selectPreviousCustomFilter(fd))
        /\ shifts' = reselectShifts(shifts, selectShifts(fd))
        /\ startDate' = selectStartDate(fd)
    /\ effectPending' = depsChanged(currentTimeRangeFilters, shifts, startDate,
                                    currentTimeRangeFilters', shifts', startDate')
    /\ UNCHANGED <<labels, batches, writer, latestRun>>

\* The effect of lines 99-178 with the microtasks it leaves: a batch whose
\* promises are all resolved already sets the labels at once.
RunEffect ==
    /\ effectPending
    /\ effectPending' = FALSE
    /\ LET shiftsArray == ensureIsArray(shifts)
           batch == newBatch(currentTimeRangeFilters, shiftsArray, startDate,
                             previousCustomFilter)
       IN  IF emitsEmpty(currentTimeRangeFilters, shiftsArray, startDate)
           THEN /\ labels' = << >>
                /\ writer' = << >>
                /\ batches' = supersede(batches)
                /\ latestRun' = "empty"
           ELSE IF startsBatch(shifts, startDate)
           THEN IF allFulfilled(batch.promises)
                THEN /\ labels' = labelsOf(batch.promises)
                     /\ writer' = <<batch>>
                     /\ batches' = supersede(batches)
                     /\ latestRun' = "written"
                ELSE /\ Len(batches) < MaxInFlight
                     /\ batches' = Append(supersede(batches), batch)
                     /\ writer' = supersede(writer)
                     /\ latestRun' = "pending"
                     /\ UNCHANGED labels
           ELSE /\ latestRun' = "skipped"
                /\ batches' = supersede(batches)
                /\ writer' = supersede(writer)
                /\ UNCHANGED labels
    /\ UNCHANGED <<form_data, currentTimeRangeFilters, previousCustomFilter, shifts,
                   startDate>>

\* a variant that discards the result of a superseded batch
settle_latestOnly(b, ps) ==
    LET batch == [batches[b] EXCEPT !.promises = ps]
    IN  IF allFulfilled(ps) /\ batch.latest
        THEN /\ labels' = labelsOf(ps)
             /\ writer' = <<batch>>
             /\ batches' = remove(batches, b)
             /\ latestRun' = "written"
        ELSE /\ batches' = IF anyPending(ps) THEN [batches EXCEPT ![b] = batch]
                           ELSE remove(batches, b)
             /\ UNCHANGED <<labels, writer, latestRun>>

\* a variant that adds a batch's result to the labels there are
settle_merging(b, ps) ==
    LET batch == [batches[b] EXCEPT !.promises = ps]
    IN  IF allFulfilled(ps)
        THEN /\ labels' = labels \o labelsOf(ps)
             /\ writer' = <<batch>>
             /\ batches' = remove(batches, b)
             /\ latestRun' = IF batch.latest THEN "written" ELSE latestRun
        ELSE /\ batches' = IF anyPending(ps) THEN [batches EXCEPT ![b] = batch]
                           ELSE remove(batches, b)
             /\ UNCHANGED <<labels, writer, latestRun>>

\* what a response leaves of batch b, its promises now being ps: Promise.all
\* fulfils when the last promise does (line 173) and the labels are set (line 175)
settle(b, ps) ==
    LET batch == [batches[b] EXCEPT !.promises = ps]
    IN  IF allFulfilled(ps)
        THEN /\ labels' = labelsOf(ps)
             /\ writer' = <<batch>>
             /\ batches' = remove(batches, b)
             /\ latestRun' = IF batch.latest THEN "written" ELSE latestRun
        ELSE /\ batches' = IF anyPending(ps) THEN [batches EXCEPT ![b] = batch]
                           ELSE remove(batches, b)
             /\ UNCHANGED <<labels, writer, latestRun>>

\* fetchTimeRange resolves for promise i of batch b
Fulfil(b, i) ==
    /\ batches[b].promises[i].state = "pending"
    /\ LET batch == batches[b]
           promise == batch.promises[i]
           call == promise.calls[Len(promise.calls)]
           value == resolveTimeRange(call.timeRange, call.columnPlaceholder, call.shifts)
       IN    IF awaitsOwnRange(promise)
             THEN \E post \in GetTimeOffsetResults(customOrInheritShifts(batch.shifts)) :
                    settle(b, [batch.promises EXCEPT ![i] =
                                   onOwnRange(promise, batch.filters[i], batch.shifts,
                                              batch.startDate, batch.useStartDate,
                                              value, post)])
             ELSE settle(b, [batch.promises EXCEPT ![i] = onResult(promise, value)])
    /\ UNCHANGED <<form_data, currentTimeRangeFilters, previousCustomFilter, shifts,
                   startDate, effectPending>>

\* fetchTimeRange rejects for promise i of batch b: Promise.all rejects, nothing
\* handles it, and the other promises of the batch go on
Reject(b, i) ==
    /\ batches[b].promises[i].state = "pending"
    /\ LET batch == [batches[b] EXCEPT !.promises[i].state = "rejected",
                                       !.rejected = TRUE]
       IN  /\ batches' = IF anyPending(batch.promises)
                         THEN [batches EXCEPT ![b] = batch]
                         ELSE remove(batches, b)
           /\ latestRun' = IF batch.latest THEN "rejected" ELSE latestRun
    /\ UNCHANGED <<form_data, currentTimeRangeFilters, previousCustomFilter, shifts,
                   startDate, labels, effectPending, writer>>

Respond == \E b \in 1..Len(batches) : \E i \in 1..Len(batches[b].promises) : Fulfil(b, i)

Fail == \E b \in 1..Len(batches) : \E i \in 1..Len(batches[b].promises) : Reject(b, i)

Next == Dispatch \/ RunEffect \/ Respond \/ Fail

Spec == Init /\ [][Next]_vars

----------------------------------------------------------------------------
(* Vocabulary of the properties *)

\* the effect runs in this step
EffectRuns == effectPending /\ ~effectPending'

\* the batches there are: those in flight and the one whose result is displayed
allBatches == batches \o writer

\* no batch stems from the most recent run of the effect
NoBatchStarted == \A b \in 1..Len(allBatches) : ~allBatches[b].latest

LiteralTags(tags) == SelectSeq(tags, LAMBDA tag : tag \notin {"custom", "inherit"})

RelativeTags(tags) == SelectSeq(tags, LAMBDA tag : tag \in {"custom", "inherit"})

HasTag(tags, tag) == \E k \in 1..Len(tags) : tags[k] = tag

Displayed(batch) == writer = <<batch>>

FetchCount(promise) ==
    Cardinality({k \in 1..Len(promise.calls) : promise.calls[k].fn = "fetchTimeRange"})

OffsetCount(promise) ==
    Cardinality({k \in 1..Len(promise.calls) : promise.calls[k].fn = "getTimeOffset"})

\* every promise of every batch satisfies P(batch, i)
EveryPromise(P(_, _)) ==
    \A b \in 1..Len(allBatches) :
        \A i \in 1..Len(allBatches[b].promises) : P(allBatches[b], i)

----------------------------------------------------------------------------
(* C1 *)

\* C1: whenever the effect runs with no active temporal filter, it sets the
\* labels to [] and starts no batch (so issues no fetchTimeRange call), whatever
\* the shift tags and the start date are.
C1_NoFilterEmitsEmpty ==
    [][(EffectRuns /\ Len(currentTimeRangeFilters) = 0)
           => (labels' = << >> /\ NoBatchStarted')]_vars

\* the effect has run without a filter, with shift tags and a start date
C1_Witness ==
    /\ ~effectPending
    /\ latestRun = "empty"
    /\ Len(currentTimeRangeFilters) = 0
    /\ Len(ensureIsArray(shifts)) > 0
    /\ Truthy(startDate)
    /\ labels = << >>

----------------------------------------------------------------------------
(* C2 *)

\* C2: whenever the effect runs with no shift tag (missing, or empty once made
\* an array) and no start date, it sets the labels to [] and starts no batch,
\* whatever the temporal filters are.
C2_NoShiftNoStartEmitsEmpty ==
    [][(EffectRuns /\ Len(ensureIsArray(shifts)) = 0 /\ ~Truthy(startDate))
           => (labels' = << >> /\ NoBatchStarted')]_vars

\* the effect has run with filters, no shift tag and no start date
C2_Witness ==
    /\ ~effectPending
    /\ latestRun = "empty"
    /\ Len(currentTimeRangeFilters) > 0
    /\ Len(ensureIsArray(shifts)) = 0
    /\ ~Truthy(startDate)
    /\ labels = << >>

----------------------------------------------------------------------------
(* C3 *)

\* C3: when nothing is in flight and the effect for the latest filters, shifts
\* and start date has run and its batch, if any, has fulfilled, the labels are
\* those derived from these latest inputs: [] on the empty path, the result of
\* that latest batch otherwise.
C3_LabelsOfLatestInputs ==
    (~effectPending /\ Len(batches) = 0 /\ latestRun \in {"empty", "written"})
        => IF latestRun = "empty"
           THEN labels = << >>
           ELSE /\ Len(writer) = 1
                /\ writer[1].latest
                /\ writer[1].filters = currentTimeRangeFilters
                /\ writer[1].shifts = ensureIsArray(shifts)
                /\ writer[1].startDate = startDate
                /\ labels = labelsOf(writer[1].promises)

----------------------------------------------------------------------------
(* C4 *)

\* the batch has a filter and shift tags that are all literal
DirectBatch(batch) ==
    /\ Len(batch.filters) > 0
    /\ ~HasTag(batch.shifts, "custom")
    /\ ~HasTag(batch.shifts, "inherit")

C4_Promise(batch, i) ==
    LET promise == batch.promises[i]
        filter == batch.filters[i]
    IN  DirectBatch(batch) =>
          /\ promise.calls = <<FetchCall(filter.comparator, filter.subject,
                                         Array(batch.shifts))>>
          /\ OffsetCount(promise) = 0
          /\ promise.state = "pending" => promise.returned = << >>
          /\ promise.state = "fulfilled" =>
                 /\ Len(promise.returned) = 1
                 /\ promise.value = promise.returned[1]
                 /\ Displayed(batch) => labels[i] = promise.returned[1]

\* C4: with at least one temporal filter and shift tags that hold neither
\* "custom" nor "inherit" (empty tags with a start date included), a batch makes
\* exactly one fetchTimeRange call per filter, with the filter's comparator and
\* subject and the tags in their order, never calls getTimeOffset, and the
\* filter's label is the value that call returned.
C4_LiteralShiftsResolveDirectly == EveryPromise(C4_Promise)

\* two filters resolved with two literal tags are displayed
C4_Witness ==
    /\ Len(writer) = 1
    /\ DirectBatch(writer[1])
    /\ writer[1].shifts = <<"1 year ago", "1 week ago">>
    /\ Len(writer[1].filters) = 2
    /\ Len(labels) = 2
    /\ labels[1] # labels[2]

----------------------------------------------------------------------------
(* C5 *)

\* the relative path is asked for
RelativeBatch(batch) ==
    \/ HasTag(batch.shifts, "inherit")
    \/ HasTag(batch.shifts, "custom") /\ Truthy(batch.startDate)

\* the filter's own range has come back with a start date in it
OwnRangeHasStart(promise) ==
    Len(promise.returned) >= 1 /\ Len(MatchDates(promise.returned[1])) >= 1

OwnRangeStart(promise) == parseDttmToDate(MatchDates(promise.returned[1])[1])

C5_Promise(batch, i) ==
    LET promise == batch.promises[i]
        filter == batch.filters[i]
    IN  RelativeBatch(batch) =>
          /\ Len(promise.calls) >= 1
          /\ promise.calls[1] = FetchCall(filter.comparator, filter.subject, NoArray)
          /\ Len(promise.returned) = 0 => Len(promise.calls) = 1
          /\ ( /\ OwnRangeHasStart(promise)
               /\ \/ ~Truthy(batch.startDate)
                  \/ /\ isValid(parseDttmToDate(batch.startDate))
                     /\ parseDttmToDate(batch.startDate) <= OwnRangeStart(promise) )
             => /\ Len(promise.calls) = 3
                /\ promise.calls[2].fn = "getTimeOffset"
                /\ promise.calls[2].shifts = RelativeTags(batch.shifts)
                /\ promise.calls[2].includeFutureOffsets = FALSE
                /\ promise.calls[3] =
                       FetchCall(filter.comparator, filter.subject,
                                 Array(promise.calls[2].result
                                           \o LiteralTags(batch.shifts)))
                /\ promise.state = "pending" => Len(promise.returned) = 1
                /\ promise.state = "fulfilled" =>
                       /\ Len(promise.returned) = 2
                       /\ promise.value = promise.returned[2]
                       /\ Displayed(batch) => labels[i] = promise.returned[2]

\* C5: on the relative path ("inherit", or "custom" with a start date), when
\* the filter's own range comes back with a start date and the explicit start
\* date is missing or on or before it, the calls for the filter are, in this
\* order: fetchTimeRange(comparator, subject) without shifts; once it has
\* resolved, getTimeOffset on the relative tags only, future offsets excluded;
\* fetchTimeRange(comparator, subject, computed shifts then literal tags); and
\* the label is what the second fetch returned.
C5_RelativeShiftsResolveInThreeSteps == EveryPromise(C5_Promise)

\* a label obtained through "custom" with a start date on the start of the
\* range, the computed shift going before the two literal tags
C5_Witness ==
    /\ Len(writer) = 1
    /\ writer[1].shifts = <<"1 year ago", "custom", "1 week ago">>
    /\ writer[1].startDate = "2024-01-08"
    /\ Len(writer[1].promises[1].calls) = 3
    /\ writer[1].promises[1].calls[3].shifts =
           Array(<<"7 days ago", "1 year ago", "1 week ago">>)
    /\ labels = <<writer[1].promises[1].returned[2]>>

----------------------------------------------------------------------------
(* C6 *)

C6_Promise(batch, i) ==
    LET promise == batch.promises[i]
    IN  ( /\ RelativeBatch(batch)
          /\ OwnRangeHasStart(promise)
          /\ Truthy(batch.startDate)
          /\ isValid(parseDttmToDate(batch.startDate))
          /\ parseDttmToDate(batch.startDate) > OwnRangeStart(promise) )
        => /\ promise.state = "fulfilled"
           /\ promise.value = << >>
           /\ FetchCount(promise) = 1
           /\ OffsetCount(promise) = 0
           /\ Displayed(batch) => labels[i] = << >>

\* C6: on the relative path, a start date strictly after the start of the
\* filter's own range gives the filter the empty label, without a getTimeOffset
\* call and without a second fetchTimeRange, also when "inherit" is the only
\* relative tag.
C6_LaterStartDateGivesEmptyLabel == EveryPromise(C6_Promise)

\* "inherit" alone with a start date after the start of the range
C6_Witness ==
    /\ Len(writer) = 1
    /\ writer[1].shifts = <<"inherit">>
    /\ writer[1].startDate = "2024-01-15"
    /\ writer[1].promises[1].returned =
           << <<"2024-01-08", "<=", "ds", "<", "2024-01-15">> >>
    /\ labels = << << >> >>

----------------------------------------------------------------------------
(* C7 *)

CustomWithoutStart(batch) ==
    /\ HasTag(batch.shifts, "custom")
    /\ ~HasTag(batch.shifts, "inherit")
    /\ ~Truthy(batch.startDate)

C7_Promise(batch, i) ==
    LET promise == batch.promises[i]
    IN  CustomWithoutStart(batch) =>
          /\ promise.state = "fulfilled"
          /\ promise.value = << >>
          /\ promise.calls = << >>
          /\ Displayed(batch) => labels[i] = << >>

\* C7: with "custom" and not "inherit" among the tags and no explicit start
\* date, every filter's label is the empty string and neither fetchTimeRange
\* nor getTimeOffset is called for it, literal tags and a start date taken from
\* a previous custom filter notwithstanding.
C7_CustomWithoutStartDateGivesEmptyLabels == EveryPromise(C7_Promise)

\* two filters, literal tags around "custom", a fallback start date
C7_Witness ==
    /\ Len(writer) = 1
    /\ CustomWithoutStart(writer[1])
    /\ Len(LiteralTags(writer[1].shifts)) = 2
    /\ writer[1].useStartDate = "2024-01-01"
    /\ labels = << << >>, << >> >>

----------------------------------------------------------------------------
(* C8 *)

\* every promise of the batch exists and has made its first call, for its filter
C8_AllStarted(batch) ==
    /\ Len(batch.promises) = Len(batch.filters)
    /\ \A i \in 1..Len(batch.promises) :
         LET promise == batch.promises[i]
         IN  /\ Len(promise.calls) = 0 => promise.state = "fulfilled"
             /\ Len(promise.calls) > 0 =>
                    /\ promise.calls[1].fn = "fetchTimeRange"
                    /\ promise.calls[1].timeRange = batch.filters[i].comparator
                    /\ promise.calls[1].columnPlaceholder = batch.filters[i].subject

\* the labels a batch has written are its results, one per filter, in order
C8_WrittenWhole(batch) ==
    Displayed(batch) =>
        /\ \A i \in 1..Len(batch.promises) : batch.promises[i].state = "fulfilled"
        /\ Len(labels) = Len(batch.filters)
        /\ \A i \in 1..Len(batch.filters) : labels[i] = batch.promises[i].value

\* C8: the resolutions of a batch are all started before any completes, the
\* batch writes the labels only when every one of them has completed, and what
\* it writes has one entry per filter, the i-th being the i-th filter's result,
\* in whatever order the responses arrive.
C8_BatchJoinsInFilterOrder ==
    /\ \A b \in 1..Len(allBatches) :
           C8_AllStarted(allBatches[b]) /\ C8_WrittenWhole(allBatches[b])
    /\ Len(labels) > 0 => Len(writer) = 1

\* the second filter's response has arrived before the first's and the batch
\* has written nothing
C8_Witness ==
    \E b \in 1..Len(batches) :
        /\ Len(batches[b].promises) = 2
        /\ batches[b].promises[1].state = "pending"
        /\ batches[b].promises[2].state = "fulfilled"
        /\ batches[b].latest
        /\ ~batches[b].rejected
        /\ labels = << >>

----------------------------------------------------------------------------
(* C9 *)

LegacyCodes == {"r", "y", "m", "w", "c"}

LegacyTag(code) ==
    CASE code = "r" -> "inherit"
      [] code = "y" -> "1 year ago"
      [] code = "m" -> "1 month ago"
      [] code = "w" -> "1 week ago"
      [] code = "c" -> "custom"

\* C9: the shift tags read from the store are the one tag a legacy code r, y,
\* m, w, c maps to when time_compare is missing; time_compare itself, the
\* legacy field ignored, when it is there; and none when time_compare is
\* missing and the legacy field holds no such code.
C9_ShiftsFromLegacyField ==
    LET timeCompare == form_data.time_compare
        code == form_data.time_comparison
    IN  /\ (~timeCompare.defined /\ code \in LegacyCodes)
               => shifts = Array(<<LegacyTag(code)>>)
        /\ timeCompare.defined => shifts = timeCompare
        /\ (~timeCompare.defined /\ code \notin LegacyCodes)
               => Len(ensureIsArray(shifts)) = 0

\* the legacy code y has been resolved as "1 year ago"
C9_Witness ==
    /\ ~form_data.time_compare.defined
    /\ form_data.time_comparison = "y"
    /\ shifts = Array(<<"1 year ago">>)
    /\ Len(writer) = 1
    /\ writer[1].latest
    /\ writer[1].promises[1].calls[1].shifts = Array(<<"1 year ago">>)

----------------------------------------------------------------------------
(* C10 *)

\* C10: the component renders nothing exactly when there is no label; for any
\* other label list it renders the header and one line per label, so labels
\* that are all empty strings still get the header.
C10_RendersHeaderUnlessNoLabel ==
    LET out == render(labels)
    IN  /\ Len(out) = 0 <=> Len(labels) = 0
        /\ Len(labels) > 0 =>
               /\ Len(out) = Len(labels) + 1
               /\ out[1].tag = "ControlHeader"
               /\ \A i \in 1..Len(labels) : out[i + 1] = [tag |-> "div", text |-> labels[i]]

\* only blank labels, and the header above them
C10_Witness ==
    /\ Len(labels) = 2
    /\ \A i \in 1..Len(labels) : labels[i] = << >>
    /\ render(labels)[1].tag = "ControlHeader"
    /\ Len(render(labels)) = 3

----------------------------------------------------------------------------
(* C11 *)

\* the last response batch b waited for arrives in this step
Completes(b) ==
    /\ \E i \in 1..Len(batches[b].promises) : Fulfil(b, i)
    /\ Len(batches') < Len(batches)

----------------------------------------------------------------------------
(* C12 *)

\* a response to batch b arrives in this step
Answers(b) == \E i \in 1..Len(batches[b].promises) : Fulfil(b, i) \/ Reject(b, i)

\* a fetchTimeRange call of batch b is rejected in this step
Rejects(b) == \E i \in 1..Len(batches[b].promises) : Reject(b, i)

\* a batch one call of which was rejected never writes the labels: neither the
\* rejection nor any later response to the batch changes them
C12_RejectedBatchNeverWrites ==
    \A b \in 1..Len(batches) :
        (Rejects(b) \/ (batches[b].rejected /\ Answers(b))) =>
            /\ labels' = labels
            /\ writer' = writer

\* C12: a batch one fetchTimeRange call of which was rejected never writes the
\* labels, whatever its other calls returned; and once the batch of the most
\* recent run of the effect was rejected, the labels keep their value until the
\* effect runs again.
C12_RejectedBatchLeavesLabels ==
    [][/\ C12_RejectedBatchNeverWrites
       /\ (latestRun = "rejected" /\ ~EffectRuns) => labels' = labels
      ]_vars

----------------------------------------------------------------------------
(* C13 *)

\* label is what the i-th resolution of batch gave for the i-th filter of the
\* batch's own snapshot: the empty string, or the value of a fetchTimeRange call
\* for that filter's comparator and subject, with shifts of the batch's tags
C13_ResultOfSnapshot(batch, i, label) ==
    LET promise == batch.promises[i]
        filter == batch.filters[i]
    IN  /\ promise.state = "fulfilled"
        /\ label = promise.value
        /\ \/ label = << >> /\ FetchCount(promise) <= 1
           \/ LET call == promise.calls[Len(promise.calls)]
              IN  /\ call.fn = "fetchTimeRange"
                  /\ call.timeRange = filter.comparator
                  /\ call.columnPlaceholder = filter.subject
                  /\ call.shifts.defined
                  /\ \E post \in {<< >>} \cup GetTimeOffsetResults(RelativeTags(batch.shifts)) :
                         call.shifts.items = post \o LiteralTags(batch.shifts)
                  /\ label = resolveTimeRange(filter.comparator, filter.subject, call.shifts)

\* C13: in every reachable state the labels are either [] or the whole result
\* of exactly one batch: one label per filter of that batch's snapshot, each
\* being that batch's result for that filter, nothing kept from before the
\* write and nothing taken from another batch.
C13_LabelsAreOneWholeBatch ==
    \/ labels = << >>
    \/ /\ Len(writer) = 1
       /\ Len(writer[1].promises) = Len(writer[1].filters)
       /\ Len(labels) = Len(writer[1].filters)
       /\ \A i \in 1..Len(labels) : C13_ResultOfSnapshot(writer[1], i, labels[i])

\* a batch of two filters has replaced the labels while another batch, of other
\* inputs, holds a result that is not among the labels
C13_Witness ==
    /\ Len(writer) = 1
    /\ Len(labels) = 2
    /\ labels[1] # << >>
    /\ \E b \in 1..Len(batches) :
         /\ batches[b].shifts # writer[1].shifts
         /\ \E i \in 1..Len(batches[b].promises) :
              /\ batches[b].promises[i].state = "fulfilled"
              /\ batches[b].promises[i].value # << >>
              /\ \A k \in 1..Len(labels) : labels[k] # batches[b].promises[i].value

----------------------------------------------------------------------------
(* C14 *)

\* the store is updated in this step
StoreChanges == form_data' # form_data

\* the update changes the value of the filter list, the shift tags or the
\* explicit start date
InputsChange ==
    \/ selectCurrentTimeRangeFilters(form_data') # selectCurrentTimeRangeFilters(form_data)
    \/ selectShifts(form_data') # selectShifts(form_data)
    \/ selectStartDate(form_data') # selectStartDate(form_data)

\* C14: the effect is due again exactly when a store update changes the filter
\* list, the shift tags or the explicit start date by value. An update that
\* leaves the three equal, such as one of adhoc_custom alone, starts no batch
\* and leaves the labels; and a batch starts only when the effect runs.
C14_EffectRunsOnInputChangeOnly ==
    [][/\ StoreChanges =>
              /\ effectPending' <=> InputsChange
              /\ labels' = labels
              /\ batches' = batches
              /\ writer' = writer
       /\ (~effectPending /\ effectPending') => (StoreChanges /\ InputsChange)
       /\ Len(batches') > Len(batches) => EffectRuns
      ]_vars

\* the labels on display were computed by the batch of the most recent run of
\* the effect without a previous custom filter, the store has one now, and the
\* effect is not due
C14_Witness ==
    /\ ~isEmpty(previousCustomFilter)
    /\ ~isEmpty(selectPreviousCustomFilter(form_data))
    /\ ~Truthy(startDate)
    /\ ~effectPending
    /\ latestRun = "written"
    /\ Len(writer) = 1
    /\ writer[1].latest
    /\ HasTag(writer[1].shifts, "inherit")
    /\ writer[1].useStartDate = Undefined
    /\ Len(labels) > 0

----------------------------------------------------------------------------
(* C15 *)

\* the first fetch of the relative path has answered with a text without a date
OwnRangeWithoutDate(promise) ==
    /\ promise.path = "relative"
    /\ Len(promise.returned) > 0
    /\ MatchDates(promise.returned[1]) = << >>

C15_Promise(batch, i) ==
    LET promise == batch.promises[i]
    IN  /\ OwnRangeWithoutDate(promise) =>
               /\ promise.state = "fulfilled"
               /\ promise.value = << >>
               /\ Len(promise.returned) = 1
               /\ FetchCount(promise) = 1
               /\ OffsetCount(promise) = 0
               /\ Displayed(batch) => labels[i] = << >>
        /\ FetchCount(promise) <= 2
        /\ Len(promise.returned) <= FetchCount(promise)

\* C15: on the relative path, a filter whose own range comes back without a
\* date gets the empty label, with no getTimeOffset call and no second
\* fetchTimeRange; and no filter makes more than two fetchTimeRange calls in a
\* batch.
C15_NoDateGivesEmptyLabel == EveryPromise(C15_Promise)

\* a batch on display whose first filter went through both fetches and whose
\* second filter's own range had no date
C15_Witness ==
    /\ Len(writer) = 1
    /\ Len(labels) = 2
    /\ FetchCount(writer[1].promises[1]) = 2
    /\ labels[1] # << >>
    /\ OwnRangeWithoutDate(writer[1].promises[2])
    /\ FetchCount(writer[1].promises[2]) = 1
    /\ labels[2] = << >>

----------------------------------------------------------------------------
(* C16 *)

\* the batch was started without an explicit start date while the store had a
\* previous custom filter
HasFallback(batch) == ~Truthy(batch.startDate) /\ ~isEmpty(batch.previousCustomFilter)

\* the text before " : " in the comparator of the first previous custom filter
StartPart(batch) == AsString(SplitHead(batch.previousCustomFilter.items[1].comparator))

\* every getTimeOffset call of the promise got the explicit start date of the
\* batch, or fallback where the batch has a fallback
C16_Argument(batch, i, fallback) ==
    \A k \in 1..Len(batch.promises[i].calls) :
        LET call == batch.promises[i].calls[k]
        IN  call.fn = "getTimeOffset" =>
                call.startDate = IF HasFallback(batch) THEN fallback
                                 ELSE batch.startDate

\* the two decisions look at the explicit start date only: the relative path is
\* taken for "inherit", or for "custom" with an explicit start date; and once
\* the own range has come back with a date, the offsets are computed unless an
\* explicit start date lies after it
C16_Decisions(batch, i) ==
    LET promise == batch.promises[i]
    IN  /\ Len(RelativeTags(batch.shifts)) > 0 =>
               (promise.path = "relative" <=>
                    \/ HasTag(batch.shifts, "inherit")
                    \/ HasTag(batch.shifts, "custom") /\ Truthy(batch.startDate))
        /\ (promise.path = "relative" /\ OwnRangeHasStart(promise)) =>
               (OffsetCount(promise) = 1 <=>
                    \/ ~Truthy(batch.startDate)
                    \/ isSameOrBefore(parseDttmToDate(batch.startDate),
                                      OwnRangeStart(promise)))

\* C16: getTimeOffset gets the explicit start date whenever there is one;
\* without one, and with a previous custom filter, it gets the start part of
\* that filter's comparator; the fallback plays no part in the choice of the
\* relative path nor in the on/before comparison.
C16_FallbackIsStartPart ==
    \A b \in 1..Len(allBatches) :
        \A i \in 1..Len(allBatches[b].promises) :
            /\ C16_Argument(allBatches[b], i, StartPart(allBatches[b]))
            /\ C16_Decisions(allBatches[b], i)

\* C16, amended: as above, the fallback being the start part of the comparator
\* parsed as a date and written again as YYYY-MM-DD ("Invalid Date" if it is
\* no date), not the text of the start part itself.
C16_FallbackIsFormattedStartPart ==
    \A b \in 1..Len(allBatches) :
        \A i \in 1..Len(allBatches[b].promises) :
            /\ C16_Argument(allBatches[b], i,
                            format(parseDttmToDate(StartPart(allBatches[b]))))
            /\ C16_Decisions(allBatches[b], i)

\* a batch without explicit start date whose getTimeOffset call got the day of
\* the previous custom filter's start, a day after the start of the filter's
\* own range, and whose label came from the second fetch all the same
C16_Witness ==
    /\ Len(writer) = 1
    /\ HasFallback(writer[1])
    /\ StartPart(writer[1]) = "2024-01-15T00:00:00"
    /\ OwnRangeHasStart(writer[1].promises[1])
    /\ OwnRangeStart(writer[1].promises[1]) < parseDttmToDate("2024-01-15")
    /\ OffsetCount(writer[1].promises[1]) = 1
    /\ writer[1].promises[1].calls[2].startDate = "2024-01-15"
    /\ labels[1] # << >>

====
